---- MODULE Spec2Model ----
(***************************************************************************)
(* WorkbookProcessor (src/src/processor.py): the daily pipeline that runs  *)
(* the vde.py export, copies a master template to a dated workbook, moves  *)
(* the RAW sheet into "Raw Import", and asks LibreOffice to recalculate.   *)
(* The file system is a map from paths to file contents; one process call  *)
(* is a sequence of steps, each step one block of the source.              *)
(***************************************************************************)
EXTENDS Integers, Sequences, FiniteSets, TLC

VARIABLES
    fs,                    \* path -> content of the file at that path
    pc,                    \* position of the single (blocking) caller
    config,                \* constructor arguments (credentials, times)
    libreoffice_available, \* self.libreoffice_available
    venv_ok,               \* whether <venv_path>/bin/python can be executed
    calls,                 \* number of process calls started so far
    master_template,       \* argument of the current process call
    target_date,           \* date resolved by process
    export_date,           \* target_date received by run_vde_export
    merge_date,            \* target date used by update_master_workbook
    new_master_file,       \* path computed by update_master_workbook
    raw_wb,                \* workbook loaded from the raw file
    master_wb,             \* workbook loaded from new_master_file
    error,                 \* exception in flight inside update_master_workbook
    result,                \* outcome of the last process call
    log,                   \* lines logged by the last run_vde_export
    exportCalls,           \* subprocess.run(cmd) calls in this process call
    exportRc,              \* exit code of the export tool in this call
    mergeCalls,            \* update_master_workbook calls in this process call
    recalcCalls,           \* libreoffice invocations in this process call
    recalcRc,              \* exit code of libreoffice in this call
    rawWriter,             \* number of the call that last wrote the raw file
    complete,              \* paths holding a fully merged and saved workbook
    templateCopy,          \* content copied from the template in this call
    savedCopy,             \* content written by master_wb.save in this call
    errorCopyTried,        \* the .error copy was attempted in this call
    oldFs,                 \* the file system when the current call started
    venv_path,             \* self.venv_path
    ctor,                  \* what the constructor met, did and logged
    scratch,               \* listing of the scratch directory in this call
    probe                  \* argument and result of a function called alone

vars == << fs, pc, config, libreoffice_available, venv_ok, calls,
           master_template, target_date, export_date, merge_date,
           new_master_file, raw_wb, master_wb, error, result, log,
           exportCalls, exportRc, mergeCalls, recalcCalls, recalcRc,
           rawWriter, complete, templateCopy, savedCopy, errorCopyTried, oldFs,
           venv_path, ctor, scratch, probe >>

----------------------------------------------------------------------------
(* Bounds *)

MaxCalls == 2      \* process calls in one behaviour
MaxDim == 2        \* rows and columns of a sheet

----------------------------------------------------------------------------
(* Dates *)

Max(a, b) == IF a >= b THEN a ELSE b

Date(y, m, d) == [year |-> y, month |-> m, day |-> d]

\* target_date=None
NoDate == Date(0, 0, 0)

IsLeap(y) == (y % 4 = 0 /\ y % 100 # 0) \/ y % 400 = 0

DaysInMonth(y, m) ==
    IF m \in {4, 6, 9, 11} THEN 30
    ELSE IF m = 2 THEN (IF IsLeap(y) THEN 29 ELSE 28)
    ELSE 31

\* datetime(year, month, day) accepts exactly these
ValidDate(y, m, d) ==
    /\ y \in 1..9999
    /\ m \in 1..12
    /\ d \in 1..DaysInMonth(y, m)

\* NextDay without the carry into the next month
NextDayNoCarry(dt) == Date(dt.year, dt.month, dt.day + 1)

\* date + timedelta(days=1)
NextDay(dt) ==
    IF dt.day < DaysInMonth(dt.year, dt.month)
    THEN Date(dt.year, dt.month, dt.day + 1)
    ELSE IF dt.month < 12 THEN Date(dt.year, dt.month + 1, 1)
    ELSE Date(dt.year + 1, 1, 1)

\* date - timedelta(days=1)
PrevDay(dt) ==
    IF dt.day > 1 THEN Date(dt.year, dt.month, dt.day - 1)
    ELSE IF dt.month > 1
         THEN Date(dt.year, dt.month - 1, DaysInMonth(dt.year, dt.month - 1))
    ELSE Date(dt.year - 1, 12, 31)

\* strftime("%m%d%y"): six digits
FormatMMDDYY(dt) ==
    << dt.month \div 10, dt.month % 10,
       dt.day \div 10, dt.day % 10,
       (dt.year % 100) \div 10, dt.year % 10 >>

----------------------------------------------------------------------------
(* File names and paths *)

\* A base name is a stem, a run of digits and what follows the digits.
Name(stem, digits, ext) == [stem |-> stem, digits |-> digits, ext |-> ext]

\* os.path.join(dir, name)
Path(dir, name) == [dir |-> dir, name |-> name]

\* stems that end with the literal "3895th_"
StemsWithPrefix == {"3895th_", "old_3895th_"}

\* tails that start with the literal ".xlsx"
ExtsWithXlsx == {".xlsx", ".xlsx.error"}

\* re.search(r'3895th_(\d{6})\.xlsx', basename)
PatternMatches(name) ==
    /\ name.stem \in StemsWithPrefix
    /\ Len(name.digits) = 6
    /\ name.ext \in ExtsWithXlsx

\* _extract_date_from_filename without datetime()'s range check
_extract_date_unchecked(filename) ==
    LET name == filename.name
    IN  IF PatternMatches(name)
        THEN Date(name.digits[5] * 10 + name.digits[6] + 2000,
                  name.digits[1] * 10 + name.digits[2],
                  name.digits[3] * 10 + name.digits[4])
        ELSE NoDate

\* lines 73-95: the date in a name like 3895th_MMDDYY.xlsx, None (NoDate)
\* when the pattern is not found or datetime() raises ValueError
_extract_date_from_filename(filename) ==
    LET name == filename.name
        month == name.digits[1] * 10 + name.digits[2]
        day == name.digits[3] * 10 + name.digits[4]
        year == name.digits[5] * 10 + name.digits[6] + 2000
    IN  IF PatternMatches(name)
        THEN IF ValidDate(year, month, day)
             THEN Date(year, month, day)
             ELSE NoDate
        ELSE NoDate

\* get_yesterday_date, with the current date as input
get_yesterday_date(now) == PrevDay(now)

\* os.path.join(self.work_dir, f"3895th_{target_str}.xlsx")
DatedPath(dt) == Path("work", Name("3895th_", FormatMMDDYY(dt), ".xlsx"))

\* f"{new_master_file}.error"
ErrorPath(p) == Path(p.dir, Name(p.name.stem, p.name.digits, ".xlsx.error"))

\* os.path.join(self.work_dir, "raw_export.xlsx")
RawPath == Path("work", Name("raw_export", << >>, ".xlsx"))

----------------------------------------------------------------------------
(* Workbooks and sheets *)

\* cell.value = None
None == 0

\* A sheet is its bounding box and the value of every cell inside it.
Sheet(nrows, ncols, cells) == [nrows |-> nrows, ncols |-> ncols, cells |-> cells]

Box(nrows, ncols) == (1..nrows) \X (1..ncols)

\* The RAW sheet the export tool writes: the value at (r, c) names (r, c).
RawSheet(nrows, ncols) ==
    Sheet(nrows, ncols, [p \in Box(nrows, ncols) |-> 10 * p[1] + p[2]])

\* A "Raw Import" sheet left over in a template: every cell holds old data.
OldSheet(nrows, ncols) ==
    Sheet(nrows, ncols, [p \in Box(nrows, ncols) |-> 0 - (10 * p[1] + p[2])])

\* File contents.
Absent == [kind |-> "absent"]
Corrupt == [kind |-> "corrupt"]
Workbook(sheets, recalculated) ==
    [kind |-> "wb", sheets |-> sheets, recalculated |-> recalculated]

IsWorkbook(content) == content.kind = "wb"

\* wb.sheetnames
sheetnames(wb) == DOMAIN wb.sheets

\* ClearSheet with the clearing loop left out
ClearSheetNoop(sheet) == sheet

\* for row in import_sheet.iter_rows(): for cell in row: cell.value = None
ClearSheet(sheet) ==
    [sheet EXCEPT !.cells = [p \in DOMAIN sheet.cells |-> None]]

\* import_sheet.cell(row=row_idx, column=col_idx).value = cell.value, for
\* every cell of raw_sheet.rows; a cell that did not exist is created.
CopyCells(import_sheet, raw_sheet) ==
    LET nrows == Max(import_sheet.nrows, raw_sheet.nrows)
        ncols == Max(import_sheet.ncols, raw_sheet.ncols)
    IN  Sheet(nrows, ncols,
              [p \in Box(nrows, ncols) |->
                  IF p \in DOMAIN raw_sheet.cells
                  THEN raw_sheet.cells[p]
                  ELSE IF p \in DOMAIN import_sheet.cells
                       THEN import_sheet.cells[p]
                       ELSE None])

\* Transfer with the clearing loop moved before the two sheet checks
TransferClearFirst(raw, master) ==
    LET cleared ==
            IF "Raw Import" \in sheetnames(master)
            THEN [master EXCEPT
                     !.sheets["Raw Import"] = ClearSheet(master.sheets["Raw Import"])]
            ELSE master
    IN  IF "RAW" \notin sheetnames(raw)
        THEN [exc |-> "ValueError", wb |-> cleared]
        ELSE IF "Raw Import" \notin sheetnames(master)
        THEN [exc |-> "ValueError", wb |-> master]
        ELSE [exc |-> "",
              wb |-> [master EXCEPT !.sheets["Raw Import"] =
                         CopyCells(cleared.sheets["Raw Import"], raw.sheets["RAW"])]]

\* The body of the try block of update_master_workbook between the two
\* load_workbook calls and master_wb.save: the outcome is the exception
\* raised ("" for none) and master_wb as it is in memory at that point.
Transfer(raw, master) ==
    IF "RAW" \notin sheetnames(raw)
    THEN [exc |-> "ValueError", wb |-> master]
    ELSE IF "Raw Import" \notin sheetnames(master)
    THEN [exc |-> "ValueError", wb |-> master]
    ELSE [exc |-> "",
          wb |-> [master EXCEPT !.sheets["Raw Import"] =
                     CopyCells(ClearSheet(master.sheets["Raw Import"]),
                               raw.sheets["RAW"])]]

\* What LibreOffice writes into --outdir for a workbook it could open: the
\* same cells, with the formulas evaluated again.
Converted(content) == [content EXCEPT !.recalculated = TRUE]

----------------------------------------------------------------------------
(* Time-of-day strings and the export window *)

DigitChars == <<"0", "1", "2", "3", "4", "5", "6", "7", "8", "9">>

IsDigit(ch) == \E i \in 1..10 : DigitChars[i] = ch

DigitVal(ch) == (CHOOSE i \in 1..10 : DigitChars[i] = ch) - 1

\* s.split(':'), on a string given as its characters
RECURSIVE Split(_)
Split(s) ==
    IF \E i \in 1..Len(s) : s[i] = ":"
    THEN LET i == CHOOSE k \in 1..Len(s) :
                      /\ s[k] = ":"
                      /\ \A j \in 1..(k - 1) : s[j] # ":"
         IN  <<SubSeq(s, 1, i - 1)>> \o Split(SubSeq(s, i + 1, Len(s)))
    ELSE <<s>>

\* int(s) accepts a non-empty run of digits
IntOk(s) == Len(s) > 0 /\ \A i \in 1..Len(s) : IsDigit(s[i])

RECURSIVE IntOf(_)
IntOf(s) ==
    IF Len(s) = 0 THEN 0
    ELSE 10 * IntOf(SubSeq(s, 1, Len(s) - 1)) + DigitVal(s[Len(s)])

\* start_hour, start_minute = map(int, time_string.split(':'))
ParseTime(s) ==
    LET parts == Split(s)
    IN  IF Len(parts) = 2 /\ IntOk(parts[1]) /\ IntOk(parts[2])
        THEN [ok |-> TRUE, hour |-> IntOf(parts[1]), minute |-> IntOf(parts[2])]
        ELSE [ok |-> FALSE, hour |-> 0, minute |-> 0]

\* ReplaceTime with the minute dropped
ReplaceTimeHourOnly(dt, hour, minute) ==
    [date |-> dt, hour |-> hour, minute |-> 0, second |-> 0]

\* target_date.replace(hour=h, minute=m, second=0, microsecond=0)
ReplaceTime(dt, hour, minute) ==
    [date |-> dt, hour |-> hour, minute |-> minute, second |-> 0]

\* replace() rejects an hour or a minute out of range
TimeOk(t) == t.ok /\ t.hour \in 0..23 /\ t.minute \in 0..59

----------------------------------------------------------------------------
(* The export command and what is logged about it *)

\* os.path.join(self.venv_path, "bin", "python")
venv_python == "export/.venv/bin/python"

export_script_path == "export/vde.py"

\* cmd = [...]
BuildCmd(cfg, output_file, start_time, end_time) ==
    << venv_python, export_script_path, "-vv", "excel",
       "--apiKeyId", cfg.api_key_id,
       "--apiKey", cfg.api_key,
       "--orgId", cfg.org_id,
       "--resourceName", "langer_fill",
       "--start", ToString(start_time),
       "--end", ToString(end_time),
       "--timezone", cfg.timezone,
       "--bucketPeriod", "PT5M",
       "--bucketMethod", "max",
       "--includeKeys", ".*_raw",
       "--output", ToString(output_file),
       "--tab", "RAW" >>

\* "x in cmd_mask"
Contains(seq, x) == \E i \in 1..Len(seq) : seq[i] = x

\* cmd_mask.index(x)
Index(seq, x) ==
    CHOOSE i \in 1..Len(seq) :
        /\ seq[i] = x
        /\ \A j \in 1..(i - 1) : seq[j] # x

\* if flag in cmd_mask: idx = index(flag); if idx + 1 < len: mask[idx + 1] = ...
MaskAfter(seq, flag) ==
    IF Contains(seq, flag) /\ Index(seq, flag) + 1 <= Len(seq)
    THEN [seq EXCEPT ![Index(seq, flag) + 1] = "<redacted>"]
    ELSE seq

\* cmd_mask = cmd.copy(), then the two maskings, one after the other: the
\* copy c becomes m by the first masking, and m is masked again
MaskCmd(cmd) ==
    CHOOSE masked \in { MaskAfter(m, "--apiKey") :
                            m \in { MaskAfter(c, "--apiKeyId") : c \in {cmd} } } : TRUE

\* str(e) of subprocess.CalledProcessError: it quotes the command that ran
StrCalledProcessError(cmd, rc) ==
    <<"Command">> \o cmd \o <<"returned non-zero exit status", ToString(rc)>>

\* One log line: its level and the pieces of its text.
Line(level, text) == [level |-> level, text |-> text]

\* the lines logged for the captured stdout of a successful run
LogStdout(stdout_lines) ==
    IF Len(stdout_lines) > 10
    THEN <<Line("info", <<"vde.py output first lines:">>)>>
         \o [i \in 1..5 |-> Line("info", <<stdout_lines[i]>>)]
         \o <<Line("info", <<"...">>),
              Line("info", <<"vde.py output last lines:">>)>>
         \o [i \in 1..5 |->
                Line("info", <<stdout_lines[Len(stdout_lines) - 5 + i]>>)]
    ELSE <<Line("info", <<"vde.py output:">>)>>
         \o [i \in 1..Len(stdout_lines) |-> Line("info", <<stdout_lines[i]>>)]

\* the lines logged in "except subprocess.CalledProcessError as e"
LogFailure(cmd, rc, stderr_lines) ==
    <<Line("error", <<"Failed to run vde.py:">> \o StrCalledProcessError(cmd, rc))>>
    \o (IF Len(stderr_lines) > 0
        THEN <<Line("error", <<"vde.py stderr output:">>)>>
             \o [i \in 1..Len(stderr_lines) |-> Line("error", <<stderr_lines[i]>>)]
        ELSE << >>)

----------------------------------------------------------------------------
(* The files, dates and inputs of the model *)

\* Master templates kept outside the working directory.
TemplateA == Path("ext", Name("3895th_", <<0, 7, 0, 1, 2, 4>>, ".xlsx"))
TemplateNotes == Path("ext", Name("notes", << >>, ".xlsx"))

\* datetime.now(): the day the pipeline runs
Today == Date(2024, 7, 3)

\* every date a call can resolve to
TargetDates == {Date(2024, 7, 2), Date(2024, 7, 3)}

\* target_date arguments of process
ExplicitDates == {NoDate, Date(2024, 7, 2), Date(2024, 7, 3)}

\* master_template arguments of process: the two outside templates and two
\* files of the working directory, a dated workbook and the raw export
TemplatePaths == {TemplateA, TemplateNotes, DatedPath(Date(2024, 7, 2)), RawPath}

Paths ==
    {TemplateA, TemplateNotes, RawPath}
    \cup {DatedPath(d) : d \in TargetDates}
    \cup {ErrorPath(DatedPath(d)) : d \in TargetDates}

\* a template whose "Raw Import" sheet still holds the previous day's data
TemplateWorkbook ==
    Workbook([n \in {"Raw Import"} |-> OldSheet(MaxDim, 1)], TRUE)

\* a workbook without a "Raw Import" sheet
NotesWorkbook == Workbook([n \in {"Notes"} |-> OldSheet(1, 1)], TRUE)

\* what the export tool may leave at --output: nothing, a workbook with the
\* RAW sheet, a workbook without it
ExportOutputs ==
    { Absent,
      Workbook([n \in {"RAW"} |-> RawSheet(1, MaxDim)], FALSE),
      Workbook([n \in {"Sheet1"} |-> RawSheet(1, 1)], FALSE) }

\* captured stdout and stderr of the export tool, as lines
StdoutChoices == { <<"">>, [i \in 1..11 |-> "row exported"] }
StderrChoices == { << >>, <<"Traceback">> }

NoPath == Path("", Name("", << >>, ""))

\* the outcome of a process call
Running == [kind |-> "running", path |-> NoPath, exc |-> "", msg |-> << >>]
Returned(path) == [kind |-> "path", path |-> path, exc |-> "", msg |-> << >>]
Raised(exc, msg) == [kind |-> "error", path |-> NoPath, exc |-> exc, msg |-> msg]

----------------------------------------------------------------------------
(* The decisions of the source, one operator each *)

\* process, lines 333-345: explicit > template date + 1 day > yesterday
ResolveTargetDate(template, explicit, now) ==
    IF explicit = NoDate
    THEN LET template_date == _extract_date_from_filename(template)
         IN  IF template_date # NoDate
             THEN NextDay(template_date)
             ELSE get_yesterday_date(now)
    ELSE explicit

\* the target_date argument process hands to run_vde_export
ExportArgDate(resolved) == resolved

\* MergeArgDate with the date left out, so that the merge derives its own
MergeArgDateNone(resolved) == NoDate

\* the target_date argument process hands to update_master_workbook
MergeArgDate(resolved) == resolved

\* run_vde_export, lines 105-107
ExportTargetDate(arg, now) ==
    IF arg = NoDate THEN get_yesterday_date(now) ELSE arg

\* update_master_workbook, lines 248-258
MergeTargetDate(arg, template, now) ==
    IF arg = NoDate
    THEN LET template_date == _extract_date_from_filename(template)
         IN  IF template_date # NoDate THEN NextDay(template_date) ELSE now
    ELSE arg

\* ExportOutcome with check=False: the exit code is not looked at
ExportOutcomeIgnoreExit(rc, output_exists) ==
    IF ~output_exists THEN "FileNotFoundError" ELSE ""

\* run_vde_export after subprocess.run: check=True raises CalledProcessError,
\* turned into RuntimeError; a missing output file raises FileNotFoundError
ExportOutcome(rc, output_exists) ==
    IF rc # 0 THEN "RuntimeError"
    ELSE IF ~output_exists THEN "FileNotFoundError"
    ELSE ""

\* RecalcEnabled with the flag not consulted
RecalcEnabledAlways(available) == TRUE

\* _recalculate_with_libreoffice, line 202
RecalcEnabled(available) == available

\* RecalcPropagates without the except clause
RecalcPropagatesAll(exc) == exc

\* _recalculate_with_libreoffice, lines 235-236: what leaves the function
\* when exc was raised inside the try block ("" for nothing)
RecalcPropagates(exc) == ""

\* Reraised with the .error copy's exception not swallowed
ReraisedLast(exc, copy_exc) == IF copy_exc # "" THEN copy_exc ELSE exc

\* update_master_workbook, lines 309-319: the exception that leaves the
\* handler, given the one that entered it and the outcome of the .error copy
Reraised(exc, copy_exc) == exc

\* process, line 353
ProcessReturn(merge_return) == merge_return

----------------------------------------------------------------------------
(* The state after construction *)

\* os.path.join(self.export_script_dir, ".venv")
VenvPath == "export/.venv"

\* the state of a constructor call: not yet made
NotConstructed ==
    [done |-> FALSE, which |-> "", venv_found |-> FALSE, setup |-> "",
     setupCalls |-> 0, log |-> << >>]

\* no function is being called alone
NoWindow ==
    [ok |-> FALSE,
     start |-> [date |-> NoDate, hour |-> 0, minute |-> 0, second |-> 0],
     end |-> [date |-> NoDate, hour |-> 0, minute |-> 0, second |-> 0]]

NoPlan ==
    [target_date |-> NoDate, raw_file |-> NoPath, export_date |-> NoDate,
     merge_date |-> NoDate, new_master_file |-> NoPath]

NoProbe ==
    [kind |-> "none", name |-> NoPath, explicit |-> NoDate, now |-> NoDate,
     start |-> << >>, end |-> << >>, done |-> FALSE,
     date |-> NoDate, plan |-> NoPlan, window |-> NoWindow]

\* the files, and the variables that belong to a process call, before the
\* first call
Fresh ==
    /\ fs = [p \in Paths |->
                IF p = TemplateA THEN TemplateWorkbook
                ELSE IF p = TemplateNotes THEN NotesWorkbook
                ELSE Absent]
    /\ config \in [api_key_id : {"key-id-1"},
                   api_key : {"secret-1"},
                   org_id : {"org-1"},
                   timezone : {"America/New_York"},
                   export_start_time : {<<"7", ":", "0", "0">>},
                   export_end_time : {<<"1", "9", ":", "0", "0">>}]
    /\ calls = 0
    /\ master_template = NoPath
    /\ target_date = NoDate
    /\ export_date = NoDate
    /\ merge_date = NoDate
    /\ new_master_file = NoPath
    /\ raw_wb = Absent
    /\ master_wb = Absent
    /\ error = ""
    /\ result = Running
    /\ log = << >>
    /\ exportCalls = 0
    /\ exportRc = -1
    /\ mergeCalls = 0
    /\ recalcCalls = 0
    /\ recalcRc = -1
    /\ rawWriter = 0
    /\ complete = {}
    /\ templateCopy = Absent
    /\ savedCopy = Absent
    /\ errorCopyTried = FALSE
    /\ oldFs = fs
    /\ scratch = "none"

\* __init__, lines 26-39, with the engine found or not and the export
\* tool's interpreter present or not; a missing interpreter is one whose
\* directory was absent and could not be set up for want of setup.sh
Built ==
    /\ Fresh
    /\ pc = "idle"
    /\ libreoffice_available \in BOOLEAN
    /\ venv_ok \in BOOLEAN
    /\ venv_path = VenvPath
    /\ ctor = [done |-> TRUE,
               which |-> IF libreoffice_available THEN "found" ELSE "missing",
               venv_found |-> venv_ok,
               setup |-> IF venv_ok THEN "" ELSE "no_script",
               setupCalls |-> IF venv_ok THEN 0 ELSE 1,
               log |-> << >>]

Init == Built /\ probe = NoProbe

setup == << config, libreoffice_available, venv_ok, venv_path, ctor >>

----------------------------------------------------------------------------
(* process, lines 321-347: resolve the date, fix the raw file's path *)

process(template, explicit) ==
    /\ pc = "idle"
    /\ calls < MaxCalls
    /\ calls' = calls + 1
    /\ master_template' = template
    /\ target_date' = ResolveTargetDate(template, explicit, Today)
    /\ export_date' = NoDate
    /\ merge_date' = NoDate
    /\ new_master_file' = NoPath
    /\ raw_wb' = Absent
    /\ master_wb' = Absent
    /\ error' = ""
    /\ result' = Running
    /\ log' = << >>
    /\ exportCalls' = 0
    /\ exportRc' = -1
    /\ mergeCalls' = 0
    /\ recalcCalls' = 0
    /\ recalcRc' = -1
    /\ templateCopy' = Absent
    /\ savedCopy' = Absent
    /\ errorCopyTried' = FALSE
    /\ oldFs' = fs
    /\ scratch' = "none"
    /\ pc' = "export"
    /\ UNCHANGED << fs, setup, probe, rawWriter, complete >>

(* run_vde_export, lines 102-166: build the window and the command, log the *)
(* masked command, start the export tool                                   *)
run_vde_export ==
    /\ pc = "export"
    /\ LET date == ExportTargetDate(ExportArgDate(target_date), Today)
           st == ParseTime(config.export_start_time)
           en == ParseTime(config.export_end_time)
           cmd == BuildCmd(config, RawPath,
                           ReplaceTime(date, st.hour, st.minute),
                           ReplaceTime(date, en.hour, en.minute))
       IN  /\ export_date' = date
           /\ IF ~(TimeOk(st) /\ TimeOk(en))
              THEN /\ result' = Raised("ValueError", << >>)
                   /\ pc' = "idle"
                   /\ UNCHANGED << log, exportCalls >>
              ELSE /\ log' = log \o
                        << Line("info", <<"Exporting data from",
                                          ToString(ReplaceTime(date, st.hour, st.minute)),
                                          "to",
                                          ToString(ReplaceTime(date, en.hour, en.minute))>>),
                           Line("info", <<"Running vde.py command:">> \o MaskCmd(cmd)) >>
                   /\ exportCalls' = exportCalls + 1
                   /\ IF venv_ok
                      THEN pc' = "export_wait" /\ UNCHANGED result
                      ELSE /\ result' = Raised("FileNotFoundError", <<venv_python>>)
                           /\ pc' = "idle"
    /\ UNCHANGED << fs, setup, probe, scratch, calls, master_template, target_date, merge_date,
                    new_master_file, raw_wb, master_wb, error, exportRc,
                    mergeCalls, recalcCalls, recalcRc, rawWriter, complete, templateCopy,
                    savedCopy, errorCopyTried, oldFs >>

(* run_vde_export, lines 160-198: the export tool exits with rc, having    *)
(* left `written` at the output path (Absent: it wrote nothing)            *)
ExportExit(rc, written, stdout_lines, stderr_lines) ==
    /\ pc = "export_wait"
    /\ exportRc' = rc
    /\ fs' = IF written = Absent THEN fs ELSE [fs EXCEPT ![RawPath] = written]
    /\ rawWriter' = IF written = Absent THEN rawWriter ELSE calls
    /\ LET st == ParseTime(config.export_start_time)
           en == ParseTime(config.export_end_time)
           cmd == BuildCmd(config, RawPath,
                           ReplaceTime(export_date, st.hour, st.minute),
                           ReplaceTime(export_date, en.hour, en.minute))
           outcome == ExportOutcome(rc, fs'[RawPath] # Absent)
       IN  IF rc # 0 /\ outcome = "RuntimeError"
           THEN /\ log' = log \o LogFailure(cmd, rc, stderr_lines)
                /\ result' = Raised("RuntimeError",
                                    <<"vde.py export failed:">>
                                        \o StrCalledProcessError(cmd, rc))
                /\ pc' = "idle"
           ELSE IF outcome = "FileNotFoundError"
           THEN /\ log' = log \o LogStdout(stdout_lines)
                /\ result' = Raised("FileNotFoundError",
                                    <<"vde.py ran but raw_export.xlsx was not created.">>)
                /\ pc' = "idle"
           ELSE /\ log' = log \o LogStdout(stdout_lines)
                     \o <<Line("info", <<"Generated raw data at", ToString(RawPath)>>)>>
                /\ pc' = "merge"
                /\ UNCHANGED result
    /\ UNCHANGED << setup, probe, scratch, calls, master_template, target_date, export_date,
                    merge_date, new_master_file, raw_wb, master_wb, error,
                    exportCalls, mergeCalls, recalcCalls, recalcRc, complete, templateCopy,
                    savedCopy, errorCopyTried, oldFs >>

(* update_master_workbook with the template copy moved inside the try     *)
(* block: a failing copy enters the handler                                *)
update_master_workbook_copy_in_try ==
    /\ pc = "merge"
    /\ mergeCalls' = mergeCalls + 1
    /\ LET date == MergeTargetDate(MergeArgDate(target_date), master_template, Today)
           new == DatedPath(date)
       IN  /\ merge_date' = date
           /\ new_master_file' = new
           /\ IF fs[master_template] = Absent \/ master_template = new
              THEN /\ error' = IF master_template = new
                               THEN "SameFileError" ELSE "FileNotFoundError"
                   /\ pc' = "handler"
                   /\ UNCHANGED << fs, complete, templateCopy >>
              ELSE /\ fs' = [fs EXCEPT ![new] = fs[master_template]]
                   /\ templateCopy' = fs[master_template]
                   /\ complete' = complete \ {new}
                   /\ pc' = "load"
                   /\ UNCHANGED error
    /\ UNCHANGED << setup, probe, scratch, calls, master_template, target_date, export_date,
                    raw_wb, master_wb, result, log, exportCalls, exportRc,
                    recalcCalls, recalcRc, rawWriter, savedCopy, errorCopyTried, oldFs >>

(* update_master_workbook, lines 238-265: name the dated workbook and copy  *)
(* the template to it; a failure here is outside the try block             *)
update_master_workbook ==
    /\ pc = "merge"
    /\ mergeCalls' = mergeCalls + 1
    /\ LET date == MergeTargetDate(MergeArgDate(target_date), master_template, Today)
           new == DatedPath(date)
       IN  /\ merge_date' = date
           /\ new_master_file' = new
           /\ IF fs[master_template] = Absent
              THEN /\ result' = Raised("FileNotFoundError", <<ToString(master_template)>>)
                   /\ pc' = "idle"
                   /\ UNCHANGED << fs, complete, templateCopy >>
              ELSE IF master_template = new
              THEN /\ result' = Raised("SameFileError", <<ToString(master_template)>>)
                   /\ pc' = "idle"
                   /\ UNCHANGED << fs, complete, templateCopy >>
              ELSE /\ fs' = [fs EXCEPT ![new] = fs[master_template]]
                   /\ templateCopy' = fs[master_template]
                   /\ complete' = complete \ {new}
                   /\ pc' = "load"
                   /\ UNCHANGED result
    /\ UNCHANGED << setup, probe, scratch, calls, master_template, target_date, export_date,
                    raw_wb, master_wb, error, log, exportCalls, exportRc,
                    recalcCalls, recalcRc, rawWriter, savedCopy, errorCopyTried, oldFs >>

(* lines 269-270: openpyxl.load_workbook of the raw file and of the copy   *)
LoadWorkbooks ==
    /\ pc = "load"
    /\ IF IsWorkbook(fs[RawPath]) /\ IsWorkbook(fs[new_master_file])
       THEN /\ raw_wb' = fs[RawPath]
            /\ master_wb' = fs[new_master_file]
            /\ pc' = "transfer"
            /\ UNCHANGED error
       ELSE /\ error' = "BadZipFile"
            /\ pc' = "handler"
            /\ UNCHANGED << raw_wb, master_wb >>
    /\ UNCHANGED << fs, setup, probe, scratch, calls, master_template, target_date, export_date,
                    merge_date, new_master_file, result, log, exportCalls,
                    exportRc, mergeCalls, recalcCalls, recalcRc, rawWriter, complete,
                    templateCopy, savedCopy, errorCopyTried, oldFs >>

(* lines 272-298: the two sheet checks, the clearing and the copying, all  *)
(* on the workbook in memory                                               *)
TransferSheets ==
    /\ pc = "transfer"
    /\ LET r == Transfer(raw_wb, master_wb)
       IN  /\ master_wb' = r.wb
           /\ error' = r.exc
           /\ pc' = IF r.exc = "" THEN "save" ELSE "handler"
    /\ UNCHANGED << fs, setup, probe, scratch, calls, master_template, target_date, export_date,
                    merge_date, new_master_file, raw_wb, result, log,
                    exportCalls, exportRc, mergeCalls, recalcCalls, recalcRc, rawWriter,
                    complete, templateCopy, savedCopy, errorCopyTried, oldFs >>

\* what master_wb.save writes: the workbook in memory, formulas not evaluated
SavedForm(wb) == [wb EXCEPT !.recalculated = FALSE]

(* line 301: master_wb.save(new_master_file); it may fail before writing   *)
(* anything or after writing a part                                        *)
SaveWorkbook(outcome) ==
    /\ pc = "save"
    /\ IF outcome = "saved"
       THEN /\ fs' = [fs EXCEPT ![new_master_file] = SavedForm(master_wb)]
            /\ savedCopy' = SavedForm(master_wb)
            /\ complete' = complete \cup {new_master_file}
            /\ pc' = "recalc"
            /\ UNCHANGED error
       ELSE /\ fs' = IF outcome = "partial"
                     THEN [fs EXCEPT ![new_master_file] = Corrupt]
                     ELSE fs
            /\ error' = "OSError"
            /\ pc' = "handler"
            /\ UNCHANGED << savedCopy, complete >>
    /\ UNCHANGED << setup, probe, scratch, calls, master_template, target_date, export_date,
                    merge_date, new_master_file, raw_wb, master_wb, result, log,
                    exportCalls, exportRc, mergeCalls, recalcCalls, recalcRc, rawWriter,
                    templateCopy, errorCopyTried, oldFs >>

(* _recalculate_with_libreoffice made to look for the engine again: the   *)
(* flag becomes whether the engine could be started                        *)
_recalculate_refreshing(started) ==
    /\ pc = "recalc"
    /\ libreoffice_available' = started
    /\ IF started
       THEN /\ recalcCalls' = recalcCalls + 1
            /\ pc' = "recalc_wait"
       ELSE /\ pc' = "return"
            /\ UNCHANGED recalcCalls
    /\ UNCHANGED << fs, config, venv_ok, venv_path, ctor, probe, scratch, calls,
                    master_template, target_date, export_date, merge_date,
                    new_master_file, raw_wb, master_wb, error, result, log,
                    exportCalls, exportRc, mergeCalls, recalcRc, rawWriter, complete,
                    templateCopy, savedCopy, errorCopyTried, oldFs >>

(* _recalculate_with_libreoffice, lines 200-221: return at once without    *)
(* the engine; otherwise make the scratch directory and start the engine,  *)
(* either of which may raise (started = FALSE)                             *)
_recalculate_with_libreoffice(started) ==
    /\ pc = "recalc"
    /\ IF ~RecalcEnabled(libreoffice_available)
       THEN /\ pc' = "return"
            /\ UNCHANGED << recalcCalls, error >>
       ELSE IF started
       THEN /\ recalcCalls' = recalcCalls + 1
            /\ pc' = "recalc_wait"
            /\ UNCHANGED error
       ELSE /\ error' = RecalcPropagates("OSError")
            /\ pc' = IF error' = "" THEN "return" ELSE "handler"
            /\ UNCHANGED recalcCalls
    /\ UNCHANGED << fs, setup, probe, scratch, calls, master_template, target_date, export_date,
                    merge_date, new_master_file, raw_wb, master_wb, result, log,
                    exportCalls, exportRc, mergeCalls, recalcRc, rawWriter, complete,
                    templateCopy, savedCopy, errorCopyTried, oldFs >>

\* the entries of the scratch directory the engine may leave, by whether
\* their name starts with the workbook's base name
ScratchListings == {"empty", "other", "match"}

\* ConvertedFound without the startswith filter of line 227
ConvertedFoundAny(listing) == listing # "empty"

\* lines 227-229: converted_files is not empty
ConvertedFound(listing) == listing = "match"

(* _recalculate_with_libreoffice, lines 221-236: the engine exits with rc; *)
(* a matching file of the scratch directory is copied back, and the copy   *)
(* may raise                                                               *)
RecalcExit(rc, listing, copy_ok) ==
    /\ pc = "recalc_wait"
    /\ fs' = IF ConvertedFound(listing) /\ copy_ok
             THEN [fs EXCEPT ![new_master_file] = Converted(fs[new_master_file])]
             ELSE fs
    /\ error' = IF ConvertedFound(listing) /\ ~copy_ok
                THEN RecalcPropagates("OSError")
                ELSE ""
    /\ recalcRc' = rc
    /\ scratch' = listing
    /\ pc' = IF error' = "" THEN "return" ELSE "handler"
    /\ UNCHANGED << setup, probe, calls, master_template, target_date, export_date,
                    merge_date, new_master_file, raw_wb, master_wb, result, log,
                    exportCalls, exportRc, mergeCalls, recalcCalls, rawWriter,
                    complete, templateCopy, savedCopy, errorCopyTried, oldFs >>

(* ReturnPath with a retry: after a non-zero exit of the engine the        *)
(* recalculation is run again                                              *)
ReturnPathRetry ==
    /\ pc = "return"
    /\ IF recalcRc = 1
       THEN /\ pc' = "recalc"
            /\ recalcRc' = -1
            /\ recalcCalls' = 0
            /\ scratch' = "none"
            /\ UNCHANGED result
       ELSE /\ result' = Returned(new_master_file)
            /\ pc' = "idle"
            /\ UNCHANGED << recalcRc, recalcCalls, scratch >>
    /\ UNCHANGED << fs, setup, probe, calls, master_template, target_date, export_date,
                    merge_date, new_master_file, raw_wb, master_wb, error, log,
                    exportCalls, exportRc, mergeCalls, rawWriter,
                    complete, templateCopy, savedCopy, errorCopyTried, oldFs >>

(* update_master_workbook, lines 307-308, and process, line 353            *)
ReturnPath ==
    /\ pc = "return"
    /\ result' = Returned(ProcessReturn(new_master_file))
    /\ pc' = "idle"
    /\ UNCHANGED << fs, setup, probe, scratch, calls, master_template, target_date, export_date,
                    merge_date, new_master_file, raw_wb, master_wb, error, log,
                    exportCalls, exportRc, mergeCalls, recalcCalls, recalcRc, rawWriter,
                    complete, templateCopy, savedCopy, errorCopyTried, oldFs >>

(* update_master_workbook, lines 309-319: copy the dated workbook to       *)
(* <path>.error if it exists, swallow a failure of that copy, re-raise     *)
ErrorHandler(copy_ok) ==
    /\ pc = "handler"
    /\ LET exists == fs[new_master_file] # Absent
           copy_exc == IF exists /\ ~copy_ok THEN "OSError" ELSE ""
       IN  /\ errorCopyTried' = exists
           /\ fs' = IF exists /\ copy_ok
                    THEN [fs EXCEPT ![ErrorPath(new_master_file)] = fs[new_master_file]]
                    ELSE fs
           /\ result' = Raised(Reraised(error, copy_exc), << >>)
    /\ pc' = "idle"
    /\ UNCHANGED << setup, probe, scratch, calls, master_template, target_date, export_date,
                    merge_date, new_master_file, raw_wb, master_wb, error, log,
                    exportCalls, exportRc, mergeCalls, recalcCalls, recalcRc, rawWriter,
                    complete, templateCopy, savedCopy, oldFs >>

----------------------------------------------------------------------------

\* the steps of a process call that run code of WorkbookProcessor
Internal ==
    \/ run_vde_export
    \/ update_master_workbook
    \/ LoadWorkbooks
    \/ TransferSheets
    \/ \E outcome \in {"saved", "unwritten", "partial"} : SaveWorkbook(outcome)
    \/ \E started \in BOOLEAN : _recalculate_with_libreoffice(started)
    \/ ReturnPath
    \/ \E copy_ok \in BOOLEAN : ErrorHandler(copy_ok)

\* subprocess.run returns, lines 160 and 221: the export tool or the engine
\* has exited
ExternalExit ==
    \/ \E rc \in {0, 1}, written \in ExportOutputs,
          stdout_lines \in StdoutChoices, stderr_lines \in StderrChoices :
           ExportExit(rc, written, stdout_lines, stderr_lines)
    \/ \E rc \in {0, 1}, listing \in ScratchListings, copy_ok \in BOOLEAN :
           RecalcExit(rc, listing, copy_ok)

\* the steps inside a process call
Steps == Internal \/ ExternalExit

Next ==
    \/ \E template \in TemplatePaths, explicit \in ExplicitDates :
           process(template, explicit)
    \/ Steps

Spec == Init /\ [][Next]_vars

----------------------------------------------------------------------------
(* Properties *)

\* the call is in, or has been through, update_master_workbook
InMerge == mergeCalls >= 1

\* the template copy of this call succeeded
Copied == templateCopy # Absent

\* master_wb.save of this call succeeded
Saved == savedCopy # Absent

\* a process call has ended
Ended == pc = "idle" /\ result.kind # "running"

HasCredential(text) ==
    \/ Contains(text, config.api_key)
    \/ Contains(text, config.api_key_id)

\* C1: in every process call the export runs before the merge; the merge
\* starts only after the export exited zero with the raw file on disk; both
\* get the date process resolved; process returns the path the merge made.
C1_ExportThenMergeSameDate ==
    /\ pc = "merge" \/ InMerge =>
          /\ exportCalls = 1
          /\ exportRc = 0
          /\ fs[RawPath] # Absent
          /\ export_date = target_date
    /\ InMerge =>
          /\ mergeCalls = 1
          /\ merge_date = export_date
          /\ new_master_file = DatedPath(merge_date)
    /\ result.kind = "path" =>
          /\ InMerge
          /\ result.path = new_master_file

C1_Witness ==
    /\ Ended
    /\ result.kind = "path"
    /\ master_template = TemplateA
    /\ result.path = DatedPath(Date(2024, 7, 2))

\* C2: an export that exits non-zero, or exits zero with no output file,
\* makes run_vde_export raise; process passes the error on, never starts the
\* merge, touches no file but the raw one, and ran the tool exactly once.
C2_ExportFailurePropagates ==
    (exportRc > 0 \/ (exportRc = 0 /\ fs[RawPath] = Absent)) =>
        /\ pc = "idle"
        /\ result.kind = "error"
        /\ result.exc = (IF exportRc > 0 THEN "RuntimeError" ELSE "FileNotFoundError")
        /\ mergeCalls = 0
        /\ exportCalls = 1
        /\ \A p \in Paths \ {RawPath} : fs[p] = oldFs[p]

C2_Witness ==
    /\ Ended
    /\ calls = 2
    /\ exportRc = 1
    /\ fs[RawPath] # Absent
    /\ \E d \in TargetDates : fs[DatedPath(d)] # Absent

\* C3: no line logged by run_vde_export, and no message of an error it
\* raises, holds the API key or the API key ID.
C3_NoCredentialLogged ==
    /\ \A i \in 1..Len(log) : ~HasCredential(log[i].text)
    /\ ~HasCredential(result.msg)

\* C4: after a process call that ended in an error, the dated workbook of
\* that call is absent, or fully merged and saved, or has a .error copy
\* beside it.
C4_NoPartialWorkbookLeft ==
    (Ended /\ result.kind = "error") =>
        LET p == DatedPath(target_date)
        IN  \/ fs[p] = Absent
            \/ p \in complete
            \/ fs[ErrorPath(p)] # Absent

\* C5: an export that exits zero without writing its output file in this
\* call makes run_vde_export raise, so the merge never reads a raw file an
\* earlier call left behind.
C5_NoStaleRawArtifact ==
    /\ (exportRc = 0 /\ rawWriter # calls) =>
          /\ pc = "idle"
          /\ result.kind = "error"
    /\ InMerge => rawWriter = calls

\* C6: whatever the recalculation engine does (non-zero exit, no matching
\* file, an exception when starting it or copying back), recalculation
\* returns normally and the merge and process return the dated workbook.
C6_RecalculationBestEffort ==
    Saved =>
        /\ pc \in {"recalc", "recalc_wait", "return", "idle"}
        /\ error = ""
        /\ pc = "idle" => result = Returned(new_master_file)

C6_Witness ==
    /\ Ended
    /\ result.kind = "path"
    /\ recalcCalls = 1
    /\ recalcRc = 1
    /\ fs[new_master_file] = savedCopy

\* C7: with the capability flag false the engine is never started, the
\* saved dated workbook stays as saved, and process returns its path.
C7_NoEngineNoRecalculation ==
    ~libreoffice_available =>
        /\ recalcCalls = 0
        /\ pc # "recalc_wait"
        /\ Saved =>
              /\ fs[new_master_file] = savedCopy
              /\ pc \in {"recalc", "return", "idle"}
              /\ pc = "idle" => result = Returned(new_master_file)

C7_Witness ==
    /\ ~libreoffice_available
    /\ Ended
    /\ Saved
    /\ result.kind = "path"

\* the raw workbook or the dated workbook lacks its required sheet
MissingSheet ==
    /\ IsWorkbook(raw_wb)
    /\ IsWorkbook(master_wb)
    /\ \/ "RAW" \notin sheetnames(raw_wb)
       \/ "Raw Import" \notin sheetnames(master_wb)

\* C8: with the RAW sheet or the "Raw Import" sheet missing the merge
\* raises before any cell is cleared or written: the workbook in memory and
\* the file on disk are still the template copy, and nothing was saved.
C8_MissingSheetRaisesBeforeMutation ==
    (MissingSheet /\ pc # "transfer") =>
        /\ pc \in {"handler", "idle"}
        /\ error = "ValueError"
        /\ master_wb = templateCopy
        /\ fs[new_master_file] = templateCopy
        /\ ~Saved
        /\ Ended => result.kind = "error" /\ result.exc = "ValueError"

C8_Witness ==
    /\ Ended
    /\ MissingSheet
    /\ "RAW" \notin sheetnames(raw_wb)
    /\ "Raw Import" \in sheetnames(master_wb)
    /\ \E p \in DOMAIN templateCopy.sheets["Raw Import"].cells :
           templateCopy.sheets["Raw Import"].cells[p] # None

\* C9: after a successful merge every cell of "Raw Import" inside the
\* extent of RAW holds the RAW value of the same coordinate and every other
\* cell is blank; nothing of the old "Raw Import" is left.
C9_RawImportEqualsRaw ==
    Saved =>
        LET import_sheet == fs[new_master_file].sheets["Raw Import"]
            raw_sheet == raw_wb.sheets["RAW"]
        IN  /\ DOMAIN raw_sheet.cells \subseteq DOMAIN import_sheet.cells
            /\ \A p \in DOMAIN import_sheet.cells :
                   import_sheet.cells[p] =
                       IF p[1] <= raw_sheet.nrows /\ p[2] <= raw_sheet.ncols
                       THEN raw_sheet.cells[p]
                       ELSE None

C9_Witness ==
    /\ Ended
    /\ Saved
    /\ LET old_sheet == templateCopy.sheets["Raw Import"]
           raw_sheet == raw_wb.sheets["RAW"]
       IN  /\ old_sheet.nrows > raw_sheet.nrows
           /\ raw_sheet.ncols > old_sheet.ncols
           /\ \A p \in DOMAIN old_sheet.cells : old_sheet.cells[p] # None

\* C10: when a step of the merge after the template copy fails, the copy
\* to <path>.error is attempted and the caller gets the error that step
\* raised, also when the .error copy itself fails.
C10_OriginalErrorReraised ==
    (Ended /\ result.kind = "error" /\ Copied) =>
        /\ errorCopyTried
        /\ error # ""
        /\ result.exc = error

C10_Witness ==
    /\ Ended
    /\ result.kind = "error"
    /\ Copied
    /\ errorCopyTried
    /\ fs[ErrorPath(new_master_file)] = Absent

\* C11: the master template is never modified: during and after any
\* process call, whatever the template path and the target date, the file
\* at the template path holds what it held when the call started.
C11_TemplateNeverModified ==
    (calls >= 1 /\ oldFs[master_template] # Absent) =>
        fs[master_template] = oldFs[master_template]

----------------------------------------------------------------------------
(* Functions called alone: one call of a function on one argument, the     *)
(* arguments drawn from tables that hold the boundary cases                *)

\* every variable but probe
rest == << fs, pc, setup, calls, master_template, target_date, export_date,
           merge_date, new_master_file, raw_wb, master_wb, error, result, log,
           exportCalls, exportRc, mergeCalls, recalcCalls, recalcRc, rawWriter,
           complete, templateCopy, savedCopy, errorCopyTried, oldFs, scratch >>

\* the digits after the stem of a template's name: days before the end of a
\* month, of February and of a year, and digits that are no date
PlanDigits ==
    { << >>,
      <<0, 7, 0, 1, 2, 4>>, <<0, 7, 3, 1, 2, 4>>, <<0, 4, 3, 0, 2, 4>>,
      <<1, 2, 3, 1, 2, 4>>, <<1, 2, 3, 1, 9, 9>>, <<0, 2, 2, 8, 2, 4>>,
      <<0, 2, 2, 9, 2, 4>>, <<0, 2, 2, 8, 2, 3>>, <<0, 2, 2, 8, 0, 0>>,
      <<0, 2, 3, 0, 2, 4>>, <<1, 3, 0, 1, 2, 4>>, <<0, 0, 0, 0, 0, 0>> }

\* master_template arguments
PlanTemplates ==
    { Path("ext", Name(stem, digits, ".xlsx")) :
          stem \in {"3895th_", "old_3895th_", "notes_"}, digits \in PlanDigits }

\* target_date arguments
PlanExplicit == {NoDate, Date(2024, 7, 2), Date(2024, 12, 31), Date(2025, 1, 1)}

\* datetime.now(): a first day of a month, of March and of a year
PlanNows == {Date(2024, 7, 3), Date(2024, 3, 1), Date(2023, 3, 1), Date(2025, 1, 1)}

PlanProbes ==
    { [NoProbe EXCEPT !.kind = "plan", !.name = t, !.explicit = e, !.now = n] :
          t \in PlanTemplates, e \in PlanExplicit, n \in PlanNows }

\* process, lines 333-353, run_vde_export, lines 105-107, and
\* update_master_workbook, lines 248-262: the dates and the two paths of a
\* call
ProcessPlan(template, explicit, now) ==
    LET resolved == ResolveTargetDate(template, explicit, now)
        merged == MergeTargetDate(MergeArgDate(resolved), template, now)
    IN  [target_date |-> resolved,
         raw_file |-> RawPath,
         export_date |-> ExportTargetDate(ExportArgDate(resolved), now),
         merge_date |-> merged,
         new_master_file |-> DatedPath(merged)]

ProcessProbe ==
    /\ probe.kind = "plan"
    /\ ~probe.done
    /\ probe' = [probe EXCEPT
                     !.done = TRUE,
                     !.plan = ProcessPlan(probe.name, probe.explicit, probe.now)]
    /\ UNCHANGED rest

\* days from 1 January 2000 to dt, counted month by month
RECURSIVE DaysBefore(_, _)
DaysBefore(y, m) ==
    IF m <= 1 THEN 0 ELSE DaysBefore(y, m - 1) + DaysInMonth(y, m - 1)

Ordinal(dt) ==
    365 * (dt.year - 2000)
        + Cardinality({k \in 2000..(dt.year - 1) : IsLeap(k)})
        + DaysBefore(dt.year, dt.month) + dt.day

TwoDigits(n) == << (n % 100) \div 10, n % 10 >>

\* C12: process takes the explicit date if one is given, else the day after
\* the date in the template's name, else yesterday; the raw file is always
\* <workdir>/raw_export.xlsx; the dated workbook is
\* <workdir>/3895th_<MMDDYY>.xlsx of the resolved date, also when the next
\* day falls in the next month or year (3895th_070124.xlsx gives 2024-07-02
\* and 3895th_070224.xlsx).
C12_DateAndPathResolution ==
    (probe.kind = "plan" /\ probe.done) =>
        LET plan == probe.plan
            template_date == _extract_date_from_filename(probe.name)
            d == plan.target_date
        IN  /\ ValidDate(d.year, d.month, d.day)
            /\ probe.explicit # NoDate => d = probe.explicit
            /\ (probe.explicit = NoDate /\ template_date # NoDate) =>
                   Ordinal(d) = Ordinal(template_date) + 1
            /\ (probe.explicit = NoDate /\ template_date = NoDate) =>
                   Ordinal(d) = Ordinal(probe.now) - 1
            /\ plan.raw_file = Path("work", Name("raw_export", << >>, ".xlsx"))
            /\ plan.export_date = d
            /\ plan.new_master_file =
                   Path("work",
                        Name("3895th_",
                             TwoDigits(d.month) \o TwoDigits(d.day) \o TwoDigits(d.year),
                             ".xlsx"))
            /\ (probe.explicit = NoDate
                    /\ probe.name = Path("ext", Name("3895th_", <<0, 7, 0, 1, 2, 4>>, ".xlsx"))) =>
                   /\ d = Date(2024, 7, 2)
                   /\ plan.new_master_file.name.digits = <<0, 7, 0, 2, 2, 4>>

\* the template of 31 December 2024 gave the workbook of 1 January 2025
C12_Witness ==
    /\ probe.kind = "plan"
    /\ probe.done
    /\ probe.explicit = NoDate
    /\ probe.name = Path("ext", Name("3895th_", <<1, 2, 3, 1, 2, 4>>, ".xlsx"))
    /\ probe.plan.target_date = Date(2025, 1, 1)
    /\ probe.plan.new_master_file.name.digits = <<0, 1, 0, 1, 2, 5>>

----------------------------------------------------------------------------
(* _extract_date_from_filename called alone *)

\* months, days and years of the digit runs
ProbeMonths == { <<0, 0>>, <<0, 1>>, <<0, 2>>, <<0, 4>>, <<1, 2>>, <<1, 3>> }
ProbeDays == { <<0, 0>>, <<0, 1>>, <<2, 8>>, <<2, 9>>, <<3, 0>>, <<3, 1>>, <<3, 2>> }
ProbeYears == { <<0, 0>>, <<2, 3>>, <<2, 4>>, <<9, 9>> }

\* runs of six digits, and runs that are shorter or longer
ProbeDigits ==
    { m \o d \o y : m \in ProbeMonths, d \in ProbeDays, y \in ProbeYears }
        \cup { << >>, <<0, 7, 0, 1, 2>>, <<0, 7, 0, 1, 2, 4, 5>> }

\* filename arguments: the directory may itself look like a template
NameProbes ==
    { [NoProbe EXCEPT !.kind = "name", !.name = Path(dir, Name(stem, digits, ext))] :
          dir \in {"ext", "ext/3895th_070124.xlsx"},
          stem \in {"3895th_", "old_3895th_", "3895th", "notes_"},
          digits \in ProbeDigits,
          ext \in {".xlsx", ".xlsx.error", ".xls", ".csv"} }

ExtractProbe ==
    /\ probe.kind = "name"
    /\ ~probe.done
    /\ probe' = [probe EXCEPT
                     !.done = TRUE,
                     !.date = _extract_date_from_filename(probe.name)]
    /\ UNCHANGED rest

\* the days of month mm in year 2000 + yy
ValidMonthDay(mm, dd, yy) ==
    /\ mm \in 1..12
    /\ dd >= 1
    /\ dd <= (CASE mm \in {1, 3, 5, 7, 8, 10, 12} -> 31
                [] mm \in {4, 6, 9, 11} -> 30
                [] OTHER -> IF yy % 4 = 0 THEN 29 ELSE 28)

\* C13: for a base name in which 3895th_MMDDYY.xlsx is found, MMDDYY a
\* valid month and day of year 2000 + YY, _extract_date_from_filename
\* returns that date, and the date formatted as MMDDYY is the six digits
\* again; for every other name it returns None, and it never raises.
C13_ExtractDateRoundTrip ==
    (probe.kind = "name" /\ probe.done) =>
        LET name == probe.name.name
            g == name.digits
            found == /\ name.stem \in {"3895th_", "old_3895th_"}
                     /\ Len(g) = 6
                     /\ name.ext \in {".xlsx", ".xlsx.error"}
            mm == 10 * g[1] + g[2]
            dd == 10 * g[3] + g[4]
            yy == 10 * g[5] + g[6]
        IN  IF found /\ ValidMonthDay(mm, dd, yy)
            THEN /\ probe.date = Date(2000 + yy, mm, dd)
                 /\ FormatMMDDYY(probe.date) = g
            ELSE probe.date = NoDate

\* 29 February 2000 was read from 3895th_022900.xlsx
C13_Witness ==
    /\ probe.kind = "name"
    /\ probe.done
    /\ probe.name.name = Name("3895th_", <<0, 2, 2, 9, 0, 0>>, ".xlsx")
    /\ probe.date = Date(2000, 2, 29)

----------------------------------------------------------------------------
(* The export window of run_vde_export computed alone *)

\* export_start_time and export_end_time arguments, as characters
TimeStrings ==
    { <<"7", ":", "0", "0">>, <<"1", "9", ":", "0", "0">>,
      <<"0", ":", "0", "0">>, <<"2", "3", ":", "5", "9">>,
      <<"0", "7", ":", "0", "5">>, <<"1", "2", ":", "3", "0">>,
      <<"7", ":", "3", "0">>,
      <<"2", "4", ":", "0", "0">>, <<"7", ":", "6", "0">>, <<"7">>,
      <<"7", ":", "0", "0", ":", "0", "0">>, << >>,
      <<"a", ":", "0", "0">>, <<":", "0", "0">> }

\* target_date arguments
WindowDates == {Date(2024, 7, 2), Date(2024, 2, 29), Date(2024, 12, 31)}

WindowProbes ==
    { [NoProbe EXCEPT !.kind = "window", !.explicit = d, !.start = s, !.end = e] :
          d \in WindowDates, s \in TimeStrings, e \in TimeStrings }

\* run_vde_export, lines 110-115: start_time and end_time, or no window
\* when int() or replace() raises ValueError
ExportWindow(date, start_string, end_string) ==
    LET st == ParseTime(start_string)
        en == ParseTime(end_string)
    IN  IF TimeOk(st) /\ TimeOk(en)
        THEN [ok |-> TRUE,
              start |-> ReplaceTime(date, st.hour, st.minute),
              end |-> ReplaceTime(date, en.hour, en.minute)]
        ELSE NoWindow

WindowProbe ==
    /\ probe.kind = "window"
    /\ ~probe.done
    /\ probe' = [probe EXCEPT
                     !.done = TRUE,
                     !.window = ExportWindow(probe.explicit, probe.start, probe.end)]
    /\ UNCHANGED rest

\* the time of day a string of TimeStrings stands for, if it stands for one
Clock(s) ==
    CASE s = <<"7", ":", "0", "0">> -> [ok |-> TRUE, hour |-> 7, minute |-> 0]
      [] s = <<"1", "9", ":", "0", "0">> -> [ok |-> TRUE, hour |-> 19, minute |-> 0]
      [] s = <<"0", ":", "0", "0">> -> [ok |-> TRUE, hour |-> 0, minute |-> 0]
      [] s = <<"2", "3", ":", "5", "9">> -> [ok |-> TRUE, hour |-> 23, minute |-> 59]
      [] s = <<"0", "7", ":", "0", "5">> -> [ok |-> TRUE, hour |-> 7, minute |-> 5]
      [] s = <<"1", "2", ":", "3", "0">> -> [ok |-> TRUE, hour |-> 12, minute |-> 30]
      [] s = <<"7", ":", "3", "0">> -> [ok |-> TRUE, hour |-> 7, minute |-> 30]
      [] OTHER -> [ok |-> FALSE, hour |-> 0, minute |-> 0]

\* seconds from the start of 1 January 2000 to the time t
Instant(t) == ((Ordinal(t.date) * 24 + t.hour) * 60 + t.minute) * 60 + t.second

\* C14: for a target date D and configured start and end times of day, the
\* window handed to the export tool starts on D at the start hour and
\* minute and ends on D at the end hour and minute, seconds zero, both on
\* D's calendar date, and ends after it starts whenever the end time of day
\* is later than the start time of day.
C14_ExportWindowOnTargetDate ==
    (probe.kind = "window" /\ probe.done) =>
        LET s == Clock(probe.start)
            e == Clock(probe.end)
            w == probe.window
        IN  IF s.ok /\ e.ok
            THEN /\ w.ok
                 /\ w.start = [date |-> probe.explicit, hour |-> s.hour,
                                minute |-> s.minute, second |-> 0]
                 /\ w.end = [date |-> probe.explicit, hour |-> e.hour,
                              minute |-> e.minute, second |-> 0]
                 /\ (e.hour * 60 + e.minute > s.hour * 60 + s.minute) =>
                        Instant(w.end) > Instant(w.start)
            ELSE ~w.ok

\* "7:30" to "19:00" on 2 July 2024
C14_Witness ==
    /\ probe.kind = "window"
    /\ probe.done
    /\ probe.start = <<"7", ":", "3", "0">>
    /\ probe.end = <<"1", "9", ":", "0", "0">>
    /\ probe.window.ok
    /\ probe.window.start = [date |-> Date(2024, 7, 2), hour |-> 7,
                             minute |-> 30, second |-> 0]
    /\ Instant(probe.window.end) - Instant(probe.window.start) = 41400

----------------------------------------------------------------------------
(* The specification of the functions called alone *)

PureInit ==
    /\ Built
    /\ libreoffice_available
    /\ venv_ok
    /\ probe \in PlanProbes \cup NameProbes \cup WindowProbes

PureNext == ProcessProbe \/ ExtractProbe \/ WindowProbe

PureSpec == PureInit /\ [][PureNext]_vars

----------------------------------------------------------------------------
(* Construction, then calls *)

\* `which libreoffice`: exit code 0, another exit code, or which itself
\* cannot be run
WhichOutcomes == {"found", "missing", "raises"}

\* setup.sh: absent; run and failing; run and leaving the interpreter in
\* place; run and exiting 0 without leaving it
SetupOutcomes == {"no_script", "fails", "creates", "no_venv"}

\* lines 60-71: returncode == 0, and False when subprocess.run raises
_check_libreoffice(which) == which = "found"

\* _setup_venv without its try/except: a failing script raises
_setup_venv_raising(outcome) ==
    IF outcome = "no_script"
    THEN [exc |-> "", created |-> FALSE,
          log |-> <<Line("error", <<"Setup script not found">>)>>]
    ELSE IF outcome = "fails"
    THEN [exc |-> "CalledProcessError", created |-> FALSE,
          log |-> <<Line("info", <<"Running setup script">>)>>]
    ELSE [exc |-> "", created |-> outcome = "creates",
          log |-> <<Line("info", <<"Running setup script">>),
                    Line("info", <<"setup script completed successfully!">>)>>]

\* lines 41-58: what leaves _setup_venv, whether the interpreter is there
\* afterwards, and what was logged
_setup_venv(outcome) ==
    IF outcome = "no_script"
    THEN [exc |-> "", created |-> FALSE,
          log |-> <<Line("error", <<"Setup script not found">>)>>]
    ELSE IF outcome = "fails"
    THEN [exc |-> "", created |-> FALSE,
          log |-> <<Line("info", <<"Running setup script">>),
                    Line("error", <<"Failed to set up", "CalledProcessError">>)>>]
    ELSE [exc |-> "", created |-> outcome = "creates",
          log |-> <<Line("info", <<"Running setup script">>),
                    Line("info", <<"setup script completed successfully!">>)>>]

(* __init__, lines 15-39: look for the engine, then for the interpreter's  *)
(* directory, and run the setup routine if the directory is absent; an     *)
(* exception that left the setup routine would leave the constructor       *)
__init__(which, outcome) ==
    /\ pc = "new"
    /\ libreoffice_available' = _check_libreoffice(which)
    /\ venv_path' = VenvPath
    /\ LET found == venv_ok
           s == _setup_venv(outcome)
       IN  IF found
           THEN /\ ctor' = [done |-> TRUE, which |-> which, venv_found |-> TRUE,
                            setup |-> "", setupCalls |-> 0,
                            log |-> <<Line(IF _check_libreoffice(which)
                                           THEN "info" ELSE "warning",
                                           <<"LibreOffice">>),
                                      Line("info", <<"Found", VenvPath>>)>>]
                /\ pc' = "idle"
                /\ UNCHANGED venv_ok
           ELSE /\ ctor' = [done |-> s.exc = "", which |-> which,
                            venv_found |-> FALSE,
                            setup |-> outcome, setupCalls |-> 1,
                            log |-> <<Line(IF _check_libreoffice(which)
                                           THEN "info" ELSE "warning",
                                           <<"LibreOffice">>),
                                      Line("warning", <<"not found at", VenvPath>>)>>
                                        \o s.log]
                /\ venv_ok' = s.created
                /\ pc' = IF s.exc = "" THEN "idle" ELSE "failed"
    /\ UNCHANGED << fs, config, probe, scratch, calls, master_template, target_date,
                    export_date, merge_date, new_master_file, raw_wb, master_wb,
                    error, result, log, exportCalls, exportRc, mergeCalls,
                    recalcCalls, recalcRc, rawWriter, complete, templateCopy,
                    savedCopy, errorCopyTried, oldFs >>

\* before WorkbookProcessor(...) is called: the interpreter is there or not
CtorInit ==
    /\ Fresh
    /\ pc = "new"
    /\ libreoffice_available = FALSE
    /\ venv_ok \in BOOLEAN
    /\ venv_path = ""
    /\ ctor = NotConstructed
    /\ probe = NoProbe

\* master_template arguments of the calls that follow a construction
CtorTemplates == {TemplateA, TemplateNotes}

CtorNext ==
    \/ \E which \in WhichOutcomes, outcome \in SetupOutcomes : __init__(which, outcome)
    \/ \E template \in CtorTemplates : process(template, NoDate)
    \/ Steps

CtorSpec == CtorInit /\ [][CtorNext]_vars

----------------------------------------------------------------------------
(* Properties of construction and of the recalculation step *)

\* C15: the recalculation-capability flag and the interpreter's path are
\* set by the constructor and by nothing else: no step of a process call,
\* failing or not, changes either of them.
C15_ConstructionValuesKept ==
    [][ctor.done => /\ libreoffice_available' = libreoffice_available
                    /\ venv_path' = venv_path]_vars

\* a second call has ended after a failing recalculation, the first call
\* having left the flag and the path as constructed
C15_Witness ==
    /\ ctor.done
    /\ calls = MaxCalls
    /\ Ended
    /\ recalcRc = 1
    /\ libreoffice_available
    /\ venv_path = VenvPath

\* a line of the given level was logged by the constructor
CtorLogged(level) == \E i \in 1..Len(ctor.log) : ctor.log[i].level = level

\* C16: construction always completes; a missing engine only makes the
\* capability flag false; the setup routine is called only when the
\* interpreter's directory is absent, and a missing or failing setup script
\* is logged, not raised; if the interpreter is still missing, the error is
\* raised later, by run_vde_export.
C16_ConstructionNeverRaises ==
    /\ pc # "failed"
    /\ pc # "new" =>
           /\ ctor.done
           /\ libreoffice_available = (ctor.which = "found")
           /\ ctor.setupCalls >= 1 <=> ~ctor.venv_found
           /\ ctor.setup \in {"no_script", "fails"} => CtorLogged("error")
           /\ (~venv_ok /\ Ended) =>
                  /\ result = Raised("FileNotFoundError", <<venv_python>>)
                  /\ exportCalls = 1
                  /\ ~InMerge

\* the engine could not be looked for, the setup script failed, and the
\* first call was stopped by run_vde_export
C16_Witness ==
    /\ ctor.done
    /\ ctor.which = "raises"
    /\ ctor.setup = "fails"
    /\ ~libreoffice_available
    /\ ~venv_ok
    /\ Ended
    /\ result.exc = "FileNotFoundError"

\* C17: when the engine leaves no file in the scratch directory whose name
\* starts with the dated workbook's base name, the dated workbook stays as
\* master_wb.save wrote it; it is overwritten only when such a file is
\* found, and then with that file's content.
C17_NoMatchKeepsSavedWorkbook ==
    Saved =>
        \/ fs[new_master_file] = savedCopy
        \/ /\ scratch = "match"
           /\ fs[new_master_file] = Converted(savedCopy)

\* the engine exited 0 and left only a file of another name
C17_Witness ==
    /\ Saved
    /\ scratch = "other"
    /\ recalcRc = 0
    /\ Ended
    /\ result.kind = "path"
    /\ fs[new_master_file] = savedCopy

----------------------------------------------------------------------------
(* Termination of a process call *)

\* The caller's thread keeps running the code of the call, and each
\* subprocess.run returns once the external process has exited; that the
\* external process exits is the assumption under which a call ends.
\* master_template arguments: a template outside the working directory and
\* a dated workbook inside it
LiveTemplates == {TemplateA, DatedPath(Date(2024, 7, 2))}

\* target_date arguments: with the second, the dated template is the file
\* the merge would write, and shutil.copy raises SameFileError
LiveExplicit == {NoDate, Date(2024, 7, 2)}

LiveNext ==
    \/ \E template \in LiveTemplates, explicit \in LiveExplicit :
           process(template, explicit)
    \/ Steps

LiveSpec ==
    Init /\ [][LiveNext]_vars /\ WF_vars(Internal) /\ WF_vars(ExternalExit)

\* the call waits inside subprocess.run
Waiting == pc \in {"export_wait", "recalc_wait"}

\* C18: there is no timeout, retry or cancellation: the export tool and the
\* engine are each run at most once in a call; if each of them eventually
\* exits, every process call eventually returns a path or raises; and a
\* call that is not waiting for an external process can always take its
\* next step.
C18_EveryCallEnds ==
    /\ [](exportCalls <= 1 /\ recalcCalls <= 1)
    /\ []((pc # "idle" /\ ~Waiting) => ENABLED <<Internal>>_vars)
    /\ [](Waiting => ~ENABLED <<Internal>>_vars)
    /\ (pc # "idle") ~> (Ended /\ result.kind \in {"path", "error"})

\* a call has returned a path after both external processes exited, the
\* engine with a non-zero code
C18_Witness ==
    /\ Ended
    /\ result.kind = "path"
    /\ exportRc = 0
    /\ recalcCalls = 1
    /\ recalcRc = 1

----------------------------------------------------------------------------
(* The files a failing call leaves alone *)

\* the .error files of the working directory
ErrorPaths == {ErrorPath(DatedPath(d)) : d \in TargetDates}

\* C19: a process call that fails in the export step changes no file but
\* the raw export: dated workbooks and .error files of earlier calls stay
\* as they were; a .error file is written only by a call whose merge
\* failed after the template copy, never by a call that returns a path.
C19_ExportFailureLeavesFiles ==
    /\ (calls >= 1 /\ ~InMerge) =>
           \A p \in Paths \ {RawPath} : fs[p] = oldFs[p]
    /\ \A p \in ErrorPaths :
           fs[p] # oldFs[p] =>
               /\ p = ErrorPath(new_master_file)
               /\ Copied
               /\ errorCopyTried
               /\ Ended
               /\ result.kind = "error"

\* an earlier call left a dated workbook and its .error file; this call
\* failed in the export step after the tool rewrote the raw export
C19_Witness ==
    /\ calls = MaxCalls
    /\ Ended
    /\ result.kind = "error"
    /\ ~InMerge
    /\ exportRc = 1
    /\ fs[RawPath] # oldFs[RawPath]
    /\ \E d \in TargetDates :
           /\ fs[DatedPath(d)] # Absent
           /\ fs[ErrorPath(DatedPath(d))] # Absent

====
